---- MODULE Spec2Model ----
(***************************************************************************)
(* Variable-density spiral design (gadgets/spiral/vds.cpp): the step       *)
(* solver calcthetadotdot, the two-pass waveform integrator calc_vds and   *)
(* the rotation / density-weight pass calc_traj.                           *)
(*                                                                         *)
(* Numbers.  A C double is carried as a fixed-point integer: the integer v *)
(* stands for the real v / ONE.  Products and quotients are rounded toward *)
(* zero to that grid, sqrt / sin / cos / atan2 are computed on it.         *)
(* Magnetic-field quantities (slewmax, gradmax, xgrad, ygrad) are carried  *)
(* in units of 1/4258 gauss, which makes the numeric value of GAMMA one;   *)
(* every formula keeps its GAMMA factor where the source has it.           *)
(* A division by zero (FOV(kr) = 0, the caller's precondition) leaves the  *)
(* grid: the call then ends in pc = "undefined".                           *)
(***************************************************************************)
EXTENDS Integers, Sequences, FiniteSets

\* ------------------------------------------------------------ numbers

\* the real 1.0 on the fixed-point grid
ONE == 100

\* #define GAMMA 4258.0 (Hz/G), in the model's field unit of 1/4258 G
GAMMA == 1

\* #define PI 3.141592, on the grid (PI / ONE = 3.14)
PI == 314

Abs(x) == IF x < 0 THEN -x ELSE x

Sgn(x) == IF x < 0 THEN -1 ELSE IF x > 0 THEN 1 ELSE 0

\* integer quotient rounded toward zero (b # 0)
Quot(a, b) == Sgn(a) * Sgn(b) * (Abs(a) \div Abs(b))

\* a * b of two doubles
Mul(a, b) ==
    Sgn(a) * Sgn(b) *
        ((Abs(a) \div ONE) * Abs(b) + ((Abs(a) % ONE) * Abs(b)) \div ONE)

\* a / b of two doubles (b # 0)
Div(a, b) ==
    Sgn(a) * Sgn(b) *
        ((Abs(a) \div Abs(b)) * ONE + ((Abs(a) % Abs(b)) * ONE) \div Abs(b))

RECURSIVE ISqrtIter(_, _, _)
ISqrtIter(n, lo, hi) ==
    IF lo >= hi THEN lo
    ELSE LET mid == (lo + hi + 1) \div 2
         IN  IF mid * mid <= n THEN ISqrtIter(n, mid, hi)
             ELSE ISqrtIter(n, lo, mid - 1)

\* floor of the integer square root, n >= 0
ISqrt(n) == ISqrtIter(n, 0, 46340)

\* sqrt(a) of a double a >= 0: sqrt(a * ONE) = sqrt(a) * sqrt(ONE)
Sqrt(a) == IF a < 20000000 THEN ISqrt(a * ONE) ELSE ISqrt(a) * ISqrt(ONE)

\* pow(x, n) for an integer exponent n >= 0; pow(x, 0) = 1
RECURSIVE Pow(_, _)
Pow(x, n) == IF n = 0 THEN ONE ELSE Mul(x, Pow(x, n - 1))

\* sin(x) for -PI/2 <= x <= PI/2: x - x^3/6 + x^5/120 - x^7/5040
SinPoly(x) ==
    LET x2 == Mul(x, x)
        x3 == Mul(x2, x)
        x5 == Mul(x3, x2)
        x7 == Mul(x5, x2)
    IN  x - Quot(x3, 6) + Quot(x5, 120) - Quot(x7, 5040)

\* sin(x): x reduced to (-PI, PI], then folded onto [-PI/2, PI/2]
Sin(x) ==
    LET r == ((x + PI) % (2 * PI)) - PI
        f == IF 2 * r > PI THEN PI - r
             ELSE IF 2 * r < -PI THEN -PI - r
             ELSE r
        s == SinPoly(f)
    IN  IF s > ONE THEN ONE ELSE IF s < -ONE THEN -ONE ELSE s

\* cos(x) = sin(x + PI/2)
Cos(x) == IF x = 0 THEN ONE ELSE Sin(x + PI \div 2)

\* atan(z) for 0 <= z <= 1: z * (PI/4 + 0.273 * (1 - z))
AtanUnit(z) == Mul(z, PI \div 4 + Mul(27, ONE - z))

\* atan2(y, x); atan2(0, 0) = 0
Atan2(y, x) ==
    LET ay == Abs(y)
        ax == Abs(x)
        a  == IF ax = 0 /\ ay = 0 THEN 0
              ELSE IF ax >= ay THEN AtanUnit(Div(ay, ax))
              ELSE PI \div 2 - AtanUnit(Div(ax, ay))
        q  == IF x >= 0 THEN a ELSE PI - a
    IN  IF y < 0 THEN -q ELSE q

\* ------------------------------------------------- calcthetadotdot

\* FOV(kr) = sum fov[count] * pow(kr, count)   (fov is 1-indexed here)
RECURSIVE FovVal(_, _, _)
FovVal(fov, kr, count) ==
    IF count = 0 THEN 0
    ELSE FovVal(fov, kr, count - 1) + Mul(fov[count], Pow(kr, count - 1))

\* dFOV/dkr = sum count * fov[count] * pow(kr, count - 1), count > 0
RECURSIVE DFovVal(_, _, _)
DFovVal(fov, kr, count) ==
    IF count <= 1 THEN 0
    ELSE DFovVal(fov, kr, count - 1)
             + Mul((count - 1) * fov[count], Pow(kr, count - 2))

\* the solver with the other sign before the square root
PickSmallerRoot(rootparta, rootpartb) ==
    IF rootpartb < 0 THEN rootparta ELSE rootparta - Sqrt(rootpartb)

\* the solver returning the real part whatever the discriminant
PickVertex(rootparta, rootpartb) == rootparta

\* the root of the slew-rate quadratic that the solver returns
PickRoot(rootparta, rootpartb) ==
    IF rootpartb < 0 THEN rootparta ELSE rootparta + Sqrt(rootpartb)

\* one call of calcthetadotdot: the two outputs and the locals they rest on
calcthetadotdot(slewmax, gradmax, kr, krdot, Tgsample, Tdsample, Ninterleaves, fov) ==
    LET fovval    == FovVal(fov, kr, Len(fov))
        dfovdrval == DFovVal(fov, kr, Len(fov))
        gmaxfov   == Div(Div(Div(ONE, GAMMA * ONE), fovval), Tdsample)
        gmax      == IF gradmax > gmaxfov THEN gmaxfov ELSE gradmax
        maxkrdot  ==
            Sqrt(Div(Pow(Mul(GAMMA * ONE, gmax), 2),
                     ONE + Pow(Quot(Mul(Mul(2 * PI, fovval), kr),
                                    Ninterleaves), 2)))
        tpf       == Quot(Mul(2 * PI, fovval), Ninterleaves)
        tpfsq     == Pow(tpf, 2)
        qdfA      == ONE + Mul(Mul(tpfsq, kr), kr)
        qdfB      ==
            Mul(Mul(Mul(2 * tpfsq, kr), krdot), krdot)
            + Mul(Mul(Mul(Mul(Mul(Div(2 * tpfsq, fovval), dfovdrval),
                              kr), kr), krdot), krdot)
        qdfC      ==
            Pow(Mul(Mul(Mul(tpfsq, kr), krdot), krdot), 2)
            + Mul(4 * tpfsq, Pow(krdot, 4))
            + Pow(Mul(Mul(Mul(Div(Mul(tpf, dfovdrval), fovval), kr),
                          krdot), krdot), 2)
            + Mul(Mul(Div(Mul(4 * tpfsq, dfovdrval), fovval), kr),
                  Pow(krdot, 4))
            - Pow(Mul(GAMMA * ONE, slewmax), 2)
        rootparta == Div(-qdfB, 2 * qdfA)
        rootpartb == Div(Mul(qdfB, qdfB), Mul(4 * qdfA, qdfA))
                         - Div(qdfC, qdfA)
        amp       == krdot > maxkrdot
        kdd       == IF amp THEN Div(maxkrdot - krdot, Tgsample)
                     ELSE PickRoot(rootparta, rootpartb)
        tdd       == Mul(Mul(Div(Mul(tpf, dfovdrval), fovval), krdot), krdot)
                         + Mul(tpf, kdd)
    IN  [thetadotdot |-> tdd, krdotdot |-> kdd,
         branch |-> IF amp THEN "amplitude" ELSE "slew",
         rootparta |-> rootparta, rootpartb |-> rootpartb,
         maxkrdot |-> maxkrdot]

\* ------------------------------------------------------------- state

VARIABLES
    pc,             \* where the running call stands
    \* parameters of calc_vds
    slewmax, gradmax, Tgsample, Tdsample, Ninterleaves, fov, krmax, ngmax,
    \* locals and outputs of calc_vds
    gradcount, kr, krdot, krdotdot, theta, thetadot, thetadotdot,
    lastkx, lastky, numgrad, xgrad, ygrad,
    \* the states visited by the counting pass and by the filling pass
    pass1, pass2,
    \* parameters of calc_traj (xgrad, ygrad, krmax are shared with the above)
    ngrad, Nints, Tgsamp,
    \* locals and outputs of calc_traj
    inter, rotation, x_tr, y_tr, abs_w, ang_g, ang_t, tp_w,
    x_trajectory, y_trajectory, weights

params == <<slewmax, gradmax, Tgsample, Tdsample, Ninterleaves, fov, ngmax>>

vdsvars == <<kr, krdot, krdotdot, theta, thetadot, thetadotdot,
             lastkx, lastky, numgrad, pass1, pass2>>

trajparams == <<ngrad, Nints, Tgsamp>>

trajvars == <<inter, rotation, x_tr, y_tr, abs_w, ang_g, ang_t, tp_w,
              x_trajectory, y_trajectory, weights>>

vars == <<pc, params, krmax, gradcount, xgrad, ygrad, vdsvars,
          trajparams, trajvars>>

\* ------------------------------------------------------------ bounds

\* largest sample ceiling ngmax passed to calc_vds
MaxNg == 4

\* longest gradient waveform handed directly to calc_traj
MaxNgrad == 2

\* rounding slack, in grid units, granted to a rotated trajectory sample
Eps == 3

SlewSet == {100, 200}

GradSet == {100, 400}

TgSet == {50, 100}

TdSet == {1, 100}

NintSet == {1, 2}

FovSet == {<<25>>, <<50>>, <<25, 25>>, <<25, -25>>}

KrmaxSet == {-100, 0, 200, 400}

NgmaxSet == -1 .. MaxNg

GradVals == {-100, 0, 100}

TrajNintSet == {1, 3, 4}

TrajKrmaxSet == {100, 200}

Waveforms(n) == [1 .. n -> GradVals]

\* ------------------------------------------------------------- Init

\* locals of calc_vds as declared (lines 296-307); *numgrad, *xgrad, *ygrad
\* are not yet assigned
VdsLocals ==
    /\ gradcount = 0
    /\ kr = 0 /\ krdot = 0 /\ krdotdot = 0
    /\ theta = 0 /\ thetadot = 0 /\ thetadotdot = 0
    /\ lastkx = 0 /\ lastky = 0

\* locals of calc_traj as declared (lines 420-441)
TrajLocals ==
    /\ inter = 0 /\ rotation = 0
    /\ x_tr = 0 /\ y_tr = 0
    /\ abs_w = 0 /\ ang_g = 0 /\ ang_t = 0 /\ tp_w = 0
    /\ x_trajectory = <<>> /\ y_trajectory = <<>> /\ weights = <<>>

\* a call of calc_vds
InitVds ==
    /\ pc = "count"
    /\ slewmax \in SlewSet /\ gradmax \in GradSet
    /\ Tgsample \in TgSet /\ Tdsample \in TdSet
    /\ Ninterleaves \in NintSet /\ fov \in FovSet
    /\ krmax \in KrmaxSet /\ ngmax \in NgmaxSet
    /\ VdsLocals
    /\ numgrad = 0 /\ xgrad = <<>> /\ ygrad = <<>>
    /\ pass1 = <<>> /\ pass2 = <<>>
    /\ ngrad = 0 /\ Nints = 0 /\ Tgsamp = 0
    /\ TrajLocals

\* a call of calc_traj on a waveform of the caller's
InitTraj ==
    /\ pc = "traj_outer"
    /\ slewmax = 0 /\ gradmax = 0 /\ Tgsample = 0 /\ Tdsample = 0
    /\ Ninterleaves = 0 /\ fov = <<>> /\ ngmax = 0
    /\ VdsLocals
    /\ numgrad = 0 /\ pass1 = <<>> /\ pass2 = <<>>
    /\ ngrad \in 0 .. MaxNgrad
    /\ xgrad \in Waveforms(ngrad) /\ ygrad \in Waveforms(ngrad)
    /\ Nints \in TrajNintSet /\ Tgsamp \in TgSet
    /\ krmax \in TrajKrmaxSet
    /\ TrajLocals

Init == InitVds \/ InitTraj

\* ---------------------------------------------------------- calc_vds

\* the loop test with the ceiling off by one
LoopCondCeilingInclusive == (kr < krmax) /\ (gradcount <= ngmax)

\* the loop test with the extent reached one step late
LoopCondExtentInclusive == (kr <= krmax) /\ (gradcount < ngmax)

\* while ((kr < krmax) && (gradcount < ngmax))
LoopCond == (kr < krmax) /\ (gradcount < ngmax)

\* FOV(kr) = 0: the divisions of calcthetadotdot leave the grid
FovZero == FovVal(fov, kr, Len(fov)) = 0

Solve ==
    calcthetadotdot(slewmax, gradmax, kr, krdot, Tgsample, Tdsample,
                    Ninterleaves, fov)

\* lines 327-331: forward Euler on (thetadot, theta, krdot, kr)
Integrate(s, cur) ==
    LET td  == cur.thetadot + Mul(s.thetadotdot, Tgsample)
        th  == cur.theta + Mul(td, Tgsample)
        kd  == cur.krdot + Mul(s.krdotdot, Tgsample)
        k   == cur.kr + Mul(kd, Tgsample)
    IN  [kr |-> k, krdot |-> kd, theta |-> th, thetadot |-> td]

Current == [kr |-> kr, krdot |-> krdot, theta |-> theta, thetadot |-> thetadot]

\* what a pass records of one iteration
Visit(s, n) ==
    [kr |-> n.kr, krdot |-> n.krdot, theta |-> n.theta,
     thetadot |-> n.thetadot, branch |-> s.branch,
     krdotdot |-> s.krdotdot, rootparta |-> s.rootparta,
     rootpartb |-> s.rootpartb]

\* the gradient sample without its 1/GAMMA/Tgsample scale
GradSampleUnscaled(k, lastk) == k - lastk

\* lines 384-385: (1/GAMMA/Tgsample) * (k - lastk)
GradSample(k, lastk) == Mul(Div(Div(ONE, GAMMA * ONE), Tgsample), k - lastk)

\* lines 320-335: one iteration of the counting pass
CountStep ==
    /\ pc = "count" /\ LoopCond /\ ~FovZero
    /\ LET s == Solve
           n == Integrate(s, Current)
       IN  /\ thetadotdot' = s.thetadotdot /\ krdotdot' = s.krdotdot
           /\ thetadot' = n.thetadot /\ theta' = n.theta
           /\ krdot' = n.krdot /\ kr' = n.kr
           /\ pass1' = Append(pass1, Visit(s, n))
    /\ gradcount' = gradcount + 1
    /\ UNCHANGED <<pc, params, krmax, xgrad, ygrad, lastkx, lastky, numgrad,
                   pass2, trajparams, trajvars>>

\* the reset with krdot left at its value from the counting pass
ResetKeepsKrdot ==
    /\ kr' = 0 /\ krdot' = krdot /\ theta' = 0 /\ thetadot' = 0
    /\ gradcount' = 0

\* lines 353-357: reset of the integration state between the passes
ResetParameters ==
    /\ kr' = 0 /\ krdot' = 0 /\ theta' = 0 /\ thetadot' = 0
    /\ gradcount' = 0

\* lines 341-359: the counting loop has ended; size the buffers, reset
Allocate ==
    /\ pc = "count" /\ ~LoopCond
    /\ numgrad' = gradcount
    /\ xgrad' = <<>> /\ ygrad' = <<>>
    /\ ResetParameters
    /\ pc' = "fill"
    /\ UNCHANGED <<params, krmax, krdotdot, thetadotdot, lastkx, lastky,
                   pass1, pass2, trajparams, trajvars>>

\* lines 367-393: one iteration of the filling pass
FillStep ==
    /\ pc = "fill" /\ LoopCond /\ ~FovZero
    /\ LET s  == Solve
           n  == Integrate(s, Current)
           kx == Mul(n.kr, Cos(n.theta))
           ky == Mul(n.kr, Sin(n.theta))
       IN  /\ thetadotdot' = s.thetadotdot /\ krdotdot' = s.krdotdot
           /\ thetadot' = n.thetadot /\ theta' = n.theta
           /\ krdot' = n.krdot /\ kr' = n.kr
           /\ xgrad' = Append(xgrad, GradSample(kx, lastkx))
           /\ ygrad' = Append(ygrad, GradSample(ky, lastky))
           /\ lastkx' = kx /\ lastky' = ky
           /\ pass2' = Append(pass2, Visit(s, n))
    /\ gradcount' = gradcount + 1
    /\ UNCHANGED <<pc, params, krmax, numgrad, pass1, trajparams, trajvars>>

\* line 395: the filling loop has ended, calc_vds returns
FillExit ==
    /\ pc = "fill" /\ ~LoopCond
    /\ pc' = "vds_done"
    /\ UNCHANGED <<params, krmax, gradcount, xgrad, ygrad, vdsvars,
                   trajparams, trajvars>>

\* lines 186-248 at FOV(kr) = 0: division by zero in either pass
Undefined ==
    /\ pc \in {"count", "fill"} /\ LoopCond /\ FovZero
    /\ pc' = "undefined"
    /\ UNCHANGED <<params, krmax, gradcount, xgrad, ygrad, vdsvars,
                   trajparams, trajvars>>

\* --------------------------------------------------------- calc_traj

\* significand range of the float that x_temp, y_temp are declared as
FloatMant == 16777216

RECURSIVE FloatUlp(_)
FloatUlp(a) == IF a < FloatMant THEN 1 ELSE 2 * FloatUlp(a \div 2)

\* double -> float: 24 significant bits are kept
ToFloat(x) ==
    LET u == FloatUlp(Abs(x))
    IN  Sgn(x) * (((Abs(x) + u \div 2) \div u) * u)

\* the rotation angle without its factor 2
RotationHalfTurn(i, n) == Quot(i * PI, n)

\* line 444: rotation = (inter * 2 * PI) / Nints
Rotation(i, n) == Quot(i * 2 * PI, n)

\* the position accumulated without the one-sample lag
AccumulateCurrent(pos, g, j) ==
    pos + Mul(Mul(GAMMA * ONE, g[j + 1]), Tgsamp)

\* lines 450-454: position before sample j (j counts from 0) from the
\* position before sample j-1; g[j] here is the source's g[j-1]
Accumulate(pos, g, j) ==
    IF j > 0 THEN pos + Mul(Mul(GAMMA * ONE, g[j]), Tgsamp) ELSE pos

\* line 456: x_temp
RotateX(x, y, rot) == ToFloat(Mul(x, Cos(rot)) + Mul(y, Sin(rot)))

\* line 457: y_temp
RotateY(x, y, rot) == ToFloat(-Mul(x, Sin(rot)) + Mul(y, Cos(rot)))

\* lines 464-471: angle of the gradient
GradAngle(xg, yg) == IF xg = 0 THEN Quot(PI, 2) ELSE Atan2(yg, xg)

\* lines 473-480: angle of the trajectory
TrajAngle(xt, yt) == IF xt = 0 THEN Quot(PI, 2) ELSE Atan2(yt, xt)

\* the sine of the angle difference with its sign kept
SignedSin(ag, at) == Sin(ag - at)

\* lines 482-483: tp_w = sqrt(pow(sin(ang_g - ang_t), 2))
AbsSin(ag, at) == Sqrt(Pow(Sin(ag - at), 2))

\* the host's call of calc_traj on the waveform calc_vds returned
CallTraj ==
    /\ pc = "vds_done"
    /\ ngrad' = numgrad /\ Nints' = Ninterleaves /\ Tgsamp' = Tgsample
    /\ pc' = "traj_outer"
    /\ UNCHANGED <<params, krmax, gradcount, xgrad, ygrad, vdsvars, trajvars>>

\* lines 442-446: head of the interleave loop
TrajOuter ==
    /\ pc = "traj_outer" /\ inter < Nints
    /\ rotation' = Rotation(inter, Nints)
    /\ x_tr' = 0 /\ y_tr' = 0
    /\ gradcount' = 0
    /\ pc' = "traj_inner"
    /\ UNCHANGED <<params, krmax, xgrad, ygrad, vdsvars, trajparams, inter,
                   abs_w, ang_g, ang_t, tp_w, x_trajectory, y_trajectory,
                   weights>>

\* lines 448-492: one sample of one interleave
TrajSample ==
    /\ pc = "traj_inner" /\ gradcount < ngrad
    /\ LET xt == Accumulate(x_tr, xgrad, gradcount)
           yt == Accumulate(y_tr, ygrad, gradcount)
           xg == xgrad[gradcount + 1]
           yg == ygrad[gradcount + 1]
           aw == Sqrt(Pow(xg, 2) + Pow(yg, 2))
           ag == GradAngle(xg, yg)
           at == TrajAngle(xt, yt)
           tw == Mul(aw, AbsSin(ag, at))
       IN  /\ x_tr' = xt /\ y_tr' = yt
           /\ x_trajectory' =
                  Append(x_trajectory, Div(RotateX(xt, yt, rotation), krmax))
           /\ y_trajectory' =
                  Append(y_trajectory, Div(RotateY(xt, yt, rotation), krmax))
           /\ abs_w' = aw /\ ang_g' = ag /\ ang_t' = at /\ tp_w' = tw
           /\ weights' = Append(weights, tw)
    /\ gradcount' = gradcount + 1
    /\ UNCHANGED <<pc, params, krmax, xgrad, ygrad, vdsvars, trajparams,
                   inter, rotation>>

\* line 448 / 442: the sample loop has ended, next interleave
TrajInnerExit ==
    /\ pc = "traj_inner" /\ ~(gradcount < ngrad)
    /\ inter' = inter + 1
    /\ pc' = "traj_outer"
    /\ UNCHANGED <<params, krmax, gradcount, xgrad, ygrad, vdsvars,
                   trajparams, rotation, x_tr, y_tr, abs_w, ang_g, ang_t,
                   tp_w, x_trajectory, y_trajectory, weights>>

\* line 494: the interleave loop has ended, calc_traj returns
TrajReturn ==
    /\ pc = "traj_outer" /\ ~(inter < Nints)
    /\ pc' = "traj_done"
    /\ UNCHANGED <<params, krmax, gradcount, xgrad, ygrad, vdsvars,
                   trajparams, trajvars>>

Next ==
    \/ CountStep \/ Allocate \/ FillStep \/ FillExit \/ Undefined
    \/ CallTraj \/ TrajOuter \/ TrajSample \/ TrajInnerExit \/ TrajReturn

Spec == Init /\ [][Next]_vars
\* ------------------------------------------------------------ claims

Max0(n) == IF n < 0 THEN 0 ELSE n

\* the kr values of a pass never step backward (the pass starts at kr = 0)
NonDecreasing(p) ==
    \A k \in 1 .. Len(p) : p[k].kr >= (IF k = 1 THEN 0 ELSE p[k - 1].kr)

\* C1 as written: the returned sample count never exceeds ngmax, for every
\* ngmax, negative ones included.
C1_CountAtMostNgmax == pc = "vds_done" => numgrad <= ngmax

\* C1, amended: both loops stop at the ceiling, so the loop counter and the
\* returned sample count never exceed max(ngmax, 0); for a negative ngmax
\* the count is 0, which is above ngmax.
C1_CountAtMostCeiling ==
    /\ pc \in {"count", "fill"} => gradcount <= Max0(ngmax)
    /\ pc # "count" => numgrad <= Max0(ngmax)
    /\ (pc = "vds_done" /\ ngmax < 0) => numgrad = 0

\* C1 witness: a call that was cut off by the ceiling before reaching krmax
C1_Witness ==
    pc = "vds_done" /\ ngmax > 0 /\ numgrad = ngmax /\ kr < krmax

\* C2: calc_vds returns zero samples only for krmax <= 0 or ngmax <= 0: with
\* both positive it returns at least one sample, otherwise it returns none
\* and writes no gradient sample.
C2_ZeroSamplesOnlyIfDegenerate ==
    pc = "vds_done" =>
        /\ (krmax > 0 /\ ngmax > 0) => numgrad >= 1
        /\ (krmax <= 0 \/ ngmax <= 0) =>
               (numgrad = 0 /\ xgrad = <<>> /\ ygrad = <<>>)

\* C2 witness: a degenerate extent with a positive ceiling returned nothing
C2_Witness == pc = "vds_done" /\ krmax <= 0 /\ ngmax > 0 /\ numgrad = 0

\* C3: the filling pass visits the states the counting pass visited, runs as
\* many iterations, and writes exactly numgrad samples into xgrad and ygrad,
\* one after the other and never past the allocated length.
C3_PassesAgree ==
    /\ pc = "fill" =>
           /\ Len(pass2) <= Len(pass1)
           /\ pass2 = SubSeq(pass1, 1, Len(pass2))
           /\ Len(xgrad) = gradcount /\ Len(ygrad) = gradcount
           /\ gradcount <= numgrad
    /\ pc = "vds_done" =>
           /\ pass2 = pass1
           /\ Len(xgrad) = numgrad /\ Len(ygrad) = numgrad

\* C3 witness: a finished call whose passes ran several iterations
C3_Witness == pc = "vds_done" /\ numgrad >= 3

\* C4 as written: kr never decreases during the integration, whatever the
\* branch of calcthetadotdot and whatever the inputs.
C4_KrNonDecreasing == NonDecreasing(pass1) /\ NonDecreasing(pass2)

\* C4, amended: kr never decreases when the FOV is constant (numfov = 1),
\* and a step taken in the amplitude-limited branch never decreases kr; with
\* a radius-dependent FOV a slew-limited step can drive krdot negative.
C4_KrNonDecreasingConstFov ==
    \A p \in {pass1, pass2} :
        /\ Len(fov) = 1 => NonDecreasing(p)
        /\ \A k \in 1 .. Len(p) :
               p[k].branch = "amplitude" =>
                   (p[k].krdot >= 0 /\ p[k].kr >= (IF k = 1 THEN 0 ELSE p[k - 1].kr))

\* C4 witness: a constant-FOV pass with a decelerating slew-limited step and
\* an amplitude-limited step
C4_Witness ==
    /\ Len(fov) = 1
    /\ \E k \in 1 .. Len(pass2) :
           pass2[k].branch = "slew" /\ pass2[k].krdotdot < 0
    /\ \E k \in 1 .. Len(pass2) : pass2[k].branch = "amplitude"

\* C7 as written: the first gradient sample calc_vds writes is exactly (0,0).
C7_FirstGradientZero ==
    (pc \in {"fill", "vds_done"} /\ Len(xgrad) >= 1) =>
        (xgrad[1] = 0 /\ ygrad[1] = 0)

\* C7, amended: the first gradient sample is the position after the first
\* integration step, (kr1 cos(theta1), kr1 sin(theta1)), scaled by
\* 1/(GAMMA Tgsample); kr1 > 0 and the sample is not (0,0).
C7_FirstGradientIsFirstStep ==
    (pc \in {"fill", "vds_done"} /\ Len(xgrad) >= 1) =>
        LET v == pass2[1]
            c == Div(Div(ONE, GAMMA * ONE), Tgsample)
        IN  /\ v.kr > 0
            /\ xgrad[1] = Mul(c, Mul(v.kr, Cos(v.theta)))
            /\ ygrad[1] = Mul(c, Mul(v.kr, Sin(v.theta)))
            /\ <<xgrad[1], ygrad[1]>> # <<0, 0>>

\* C7 witness: a finished call whose first sample has a positive x component
C7_Witness == pc = "vds_done" /\ numgrad >= 1 /\ xgrad[1] > 0

Written ==
    {ij \in (0 .. Nints - 1) \X (0 .. ngrad - 1) :
        ij[1] * ngrad + ij[2] + 1 <= Len(x_trajectory)}

Near(a, b) == Abs(a - b) <= Eps

\* C5 as written: sample j of interleave i is sample j of interleave 0
\* rotated counter-clockwise by 2 pi i / N.
C5_RotatedCounterClockwise ==
    \A ij \in Written :
        LET a  == Quot(ij[1] * 2 * PI, Nints)
            x0 == x_trajectory[ij[2] + 1]
            y0 == y_trajectory[ij[2] + 1]
            n  == ij[1] * ngrad + ij[2] + 1
        IN  /\ Near(x_trajectory[n], Mul(x0, Cos(a)) - Mul(y0, Sin(a)))
            /\ Near(y_trajectory[n], Mul(x0, Sin(a)) + Mul(y0, Cos(a)))

\* C5, amended: sample j of interleave i is sample j of interleave 0 rotated
\* clockwise by (i * 2 * PI) / N (x' = x cos a + y sin a,
\* y' = -x sin a + y cos a), up to rounding.
C5_RotatedClockwise ==
    \A ij \in Written :
        LET a  == Quot(ij[1] * 2 * PI, Nints)
            x0 == x_trajectory[ij[2] + 1]
            y0 == y_trajectory[ij[2] + 1]
            n  == ij[1] * ngrad + ij[2] + 1
        IN  /\ Near(x_trajectory[n], Mul(x0, Cos(a)) + Mul(y0, Sin(a)))
            /\ Near(y_trajectory[n], Mul(y0, Cos(a)) - Mul(x0, Sin(a)))

\* C5 witness: a finished call with a rotated interleave away from the origin
C5_Witness ==
    /\ pc = "traj_done" /\ Nints >= 3 /\ ngrad >= 2
    /\ x_trajectory[ngrad + 2] # x_trajectory[2]
    /\ y_trajectory[ngrad + 2] # y_trajectory[2]

\* C6: every density-compensation weight calc_traj writes is >= 0.
C6_WeightsNonNegative == \A k \in 1 .. Len(weights) : weights[k] >= 0

\* C6 witness: a positive weight has been written
C6_Witness == \E k \in 1 .. Len(weights) : weights[k] > 0

\* C9: the fixed angle pi/2 stands for the gradient angle exactly when the
\* gradient sample is the zero vector, and for the position angle exactly
\* when the position is the zero vector; otherwise the angle is atan2(y, x).
C9_FallbackOnlyForZeroVector ==
    (pc = "traj_inner" /\ gradcount >= 1) =>
        LET xg == xgrad[gradcount]
            yg == ygrad[gradcount]
        IN  /\ ang_g = (IF xg = 0 /\ yg = 0 THEN Quot(PI, 2)
                        ELSE Atan2(yg, xg))
            /\ ang_t = (IF x_tr = 0 /\ y_tr = 0 THEN Quot(PI, 2)
                        ELSE Atan2(y_tr, x_tr))

\* GAMMA * Tgsamp * (g[1] + ... + g[j]), summed sample by sample
RECURSIVE PrefixPos(_, _)
PrefixPos(g, j) ==
    IF j = 0 THEN 0
    ELSE PrefixPos(g, j - 1) + Mul(Mul(GAMMA * ONE, g[j]), Tgsamp)

\* C10: the un-rotated position used for sample j of any interleave is
\* GAMMA Tgsamp times the sum of the gradient samples before j (sample j
\* excluded), restarted at each interleave; the first trajectory sample of
\* every interleave is exactly (0,0).
C10_PositionLagsOneSample ==
    /\ (pc = "traj_inner" /\ gradcount >= 1) =>
           /\ x_tr = PrefixPos(xgrad, gradcount - 1)
           /\ y_tr = PrefixPos(ygrad, gradcount - 1)
    /\ \A ij \in Written :
           ij[2] = 0 =>
               /\ x_trajectory[ij[1] * ngrad + 1] = 0
               /\ y_trajectory[ij[1] * ngrad + 1] = 0

\* C10 witness: a later interleave, past its second sample, away from the
\* origin
C10_Witness ==
    pc = "traj_inner" /\ inter >= 1 /\ gradcount >= 2 /\ x_tr # 0
====
